---------------------------- MODULE Spec2Model ----------------------------
(***************************************************************************)
(* Free monoidal categories of discopy (moncat.py): types, diagrams with   *)
(* axiom checking, composition, tensor, dagger, interchange, normalisation *)
(* and slicing.                                                            *)
(*                                                                         *)
(* A type is a sequence of objects.  A box is a record                     *)
(* [name, dom, cod, dag]; a diagram is a record [dom, cod, boxes, offsets].*)
(* Positions i, j of interchange are 0-based as in the source; TLA+        *)
(* sequences are 1-based, so position i is element i + 1.                  *)
(***************************************************************************)
EXTENDS Integers, Sequences, FiniteSets, TLC

VARIABLES
    cur,      \* the diagram value the caller currently holds
    call,     \* the last call made: a record with field op and its inputs
    out,      \* what the last call did: a record with field status
    diagram,  \* normal_form: local variable diagram
    cache,    \* normal_form: local variable cache
    pc,       \* where the session is; inside normal_form, where its loop is
    calls     \* how many calls the session has made

vars == <<cur, call, out, diagram, cache, pc, calls>>

-----------------------------------------------------------------------------
(* Bounds of the model.                                                    *)

MaxDom == 1       \* longest domain type given to the validated constructor
MaxBoxes == 2     \* most boxes given to the validated constructor
MaxOff == 1       \* largest offset given to the validated constructor
MaxCalls == 2     \* most calls a session makes on the diagram it constructed
MaxSpiral == 5    \* largest spiral normalised

Obj == {"x", "y"}

-----------------------------------------------------------------------------
(* Ty: the free monoid on objects.                                         *)

Ty0 == << >>

\* Python's normalisation of a slice bound against a length n.
SliceIndex(i, n) ==
    IF i < 0 THEN (IF i + n < 0 THEN 0 ELSE i + n)
    ELSE IF i > n THEN n ELSE i

\* t[a:b] of Ty.__getitem__ with a slice key.
GetSlice(t, a, b) ==
    LET lo == SliceIndex(a, Len(t))
        hi == SliceIndex(b, Len(t))
    IN  IF lo < hi THEN SubSeq(t, lo + 1, hi) ELSE << >>

\* t[:b] and t[a:]
Upto(t, b) == GetSlice(t, 0, b)
From(t, a) == GetSlice(t, a, Len(t))

\* all types of length at most n
TypesUpTo(n) == UNION {[1..k -> Obj] : k \in 0..n}

\* x ** n
RECURSIVE Pow(_, _)
Pow(t, n) == IF n <= 0 THEN Ty0 ELSE t \o Pow(t, n - 1)

-----------------------------------------------------------------------------
(* Boxes.                                                                  *)

Box(name, dom, cod) == [name |-> name, dom |-> dom, cod |-> cod, dag |-> FALSE]

\* cat.Box.dagger: swaps dom and cod and flips the dagger flag.
BoxDagger(b) == [name |-> b.name, dom |-> b.cod, cod |-> b.dom, dag |-> ~b.dag]

\* The diagram a Box is: itself as only box, at offset 0.
BoxDiagram(b) == [dom |-> b.dom, cod |-> b.cod, boxes |-> <<b>>, offsets |-> <<0>>]

Id(t) == [dom |-> t, cod |-> t, boxes |-> << >>, offsets |-> << >>]

-----------------------------------------------------------------------------
(* Diagram.__init__ without _fast: the scan over boxes and offsets.        *)

\* What a call that raised leaves in place of a diagram.
None == [none |-> TRUE]

Ok(d) == [status |-> "ok", value |-> d, at |-> 0]
Raised(exc, k) == [status |-> exc, value |-> None, at |-> k]

\* The scan type after a box has acted at an offset.
ScanStep(scan, box, off) ==
    Upto(scan, off) \o box.cod \o From(scan, off + Len(box.dom))

\* The loop "for box, off in zip(boxes, offsets)" from pair k on (1-based),
\* then the comparison of the final scan with cod.  A failure records the
\* pair at which it was raised, Len(boxes) + 1 for the codomain check.
RECURSIVE ScanLoop(_, _, _, _, _, _)
ScanLoop(scan, dom, cod, boxes, offsets, k) ==
    IF k > Len(boxes)
    THEN IF scan # cod
         THEN Raised("AxiomError", k)
         ELSE Ok([dom |-> dom, cod |-> cod, boxes |-> boxes, offsets |-> offsets])
    ELSE LET box == boxes[k]
             off == offsets[k]
         IN  IF GetSlice(scan, off, off + Len(box.dom)) # box.dom
             THEN Raised("AxiomError", k)
             ELSE ScanLoop(ScanStep(scan, box, off), dom, cod, boxes, offsets, k + 1)

\* The same loop with the final comparison against cod left out.
RECURSIVE ScanLoopNoCod(_, _, _, _, _, _)
ScanLoopNoCod(scan, dom, cod, boxes, offsets, k) ==
    IF k > Len(boxes)
    THEN Ok([dom |-> dom, cod |-> cod, boxes |-> boxes, offsets |-> offsets])
    ELSE LET box == boxes[k]
             off == offsets[k]
         IN  IF GetSlice(scan, off, off + Len(box.dom)) # box.dom
             THEN Raised("AxiomError", k)
             ELSE ScanLoopNoCod(ScanStep(scan, box, off), dom, cod, boxes, offsets, k + 1)

DiagramInitNoCod(dom, cod, boxes, offsets) ==
    IF Len(boxes) # Len(offsets) THEN Raised("ValueError", 0)
    ELSE ScanLoopNoCod(dom, dom, cod, boxes, offsets, 1)

\* Diagram(dom, cod, boxes, offsets)
DiagramInit(dom, cod, boxes, offsets) ==
    IF Len(boxes) # Len(offsets) THEN Raised("ValueError", 0)
    ELSE ScanLoop(dom, dom, cod, boxes, offsets, 1)

\* Diagram(dom, cod, boxes, offsets, _fast=True)
DiagramFast(dom, cod, boxes, offsets) ==
    IF Len(boxes) # Len(offsets) THEN Raised("ValueError", 0)
    ELSE Ok([dom |-> dom, cod |-> cod, boxes |-> boxes, offsets |-> offsets])

-----------------------------------------------------------------------------
(* tensor, then, dagger.                                                   *)

ShiftAll(offs, n) == [k \in 1..Len(offs) |-> offs[k] + n]

\* tensor with the offsets of other left where they are
TensorNoShift(self, other) ==
    DiagramFast(self.dom \o other.dom, self.cod \o other.cod,
                self.boxes \o other.boxes,
                self.offsets \o other.offsets)

Tensor(self, other) ==
    DiagramFast(self.dom \o other.dom, self.cod \o other.cod,
                self.boxes \o other.boxes,
                self.offsets \o ShiftAll(other.offsets, Len(self.cod)))

\* cat.Diagram.then: the arrows compose when self.cod == other.dom.
CatThen(self, other) ==
    IF self.cod # other.dom THEN Raised("AxiomError", 0)
    ELSE Ok([dom |-> self.dom, cod |-> other.cod,
             boxes |-> self.boxes \o other.boxes, offsets |-> << >>])

Then(self, other) ==
    LET result == CatThen(self, other)
    IN  IF result.status # "ok" THEN result
        ELSE DiagramFast(result.value.dom, result.value.cod, result.value.boxes,
                         self.offsets \o other.offsets)

Reverse(s) == [k \in 1..Len(s) |-> s[Len(s) + 1 - k]]

\* dagger with the offsets left in their order.
DaggerNoReverse(self) ==
    DiagramFast(self.cod, self.dom,
                [k \in 1..Len(self.boxes) |-> BoxDagger(Reverse(self.boxes)[k])],
                self.offsets)

Dagger(self) ==
    DiagramFast(self.cod, self.dom,
                [k \in 1..Len(self.boxes) |-> BoxDagger(Reverse(self.boxes)[k])],
                Reverse(self.offsets))

\* Operands are total on diagrams: the value of a call known to succeed.
T(self, other) == Tensor(self, other).value
Th(self, other) == Then(self, other).value

-----------------------------------------------------------------------------
(* interchange.                                                            *)

\* The two disjointness tests on the adjacent pair at positions i, i + 1.
RightOf(d, i) ==   \* box0 right of box1
    d.offsets[i + 1] >= d.offsets[i + 2] + Len(d.boxes[i + 2].dom)
LeftOf(d, i) ==    \* box0 left of box1
    d.offsets[i + 2] >= d.offsets[i + 1] + Len(d.boxes[i + 1].cod)

\* boxes[:i] + [b1, b0] + boxes[i + 2:]
Swapped(s, i, e1, e0) ==
    GetSlice(s, 0, i) \o <<e1, e0>> \o GetSlice(s, i + 2, Len(s))

\* The adjacent case with the moved offset left as it was.
InterchangeAdjacentNoAdjust(d, i, left) ==
    LET box0 == d.boxes[i + 1]
        box1 == d.boxes[i + 2]
        off0 == d.offsets[i + 1]
        off1 == d.offsets[i + 2]
    IN  IF RightOf(d, i) \/ LeftOf(d, i)
        THEN DiagramFast(d.dom, d.cod, Swapped(d.boxes, i, box1, box0),
                 Swapped(d.offsets, i, off1, off0))
        ELSE Raised("InterchangerError", i)

\* interchange(i, i + 1, left) once i and j are ordered: boxes at positions
\* i and i + 1 (0-based).
InterchangeAdjacent(d, i, left) ==
    LET box0 == d.boxes[i + 1]
        box1 == d.boxes[i + 2]
        off0 == d.offsets[i + 1]
        off1 == d.offsets[i + 2]
    IN  IF left /\ LeftOf(d, i)
        THEN DiagramFast(d.dom, d.cod, Swapped(d.boxes, i, box1, box0),
                 Swapped(d.offsets, i, off1 - Len(box0.cod) + Len(box0.dom), off0))
        ELSE IF RightOf(d, i)
        THEN DiagramFast(d.dom, d.cod, Swapped(d.boxes, i, box1, box0),
                 Swapped(d.offsets, i, off1, off0 - Len(box1.dom) + Len(box1.cod)))
        ELSE IF LeftOf(d, i)
        THEN DiagramFast(d.dom, d.cod, Swapped(d.boxes, i, box1, box0),
                 Swapped(d.offsets, i, off1 - Len(box0.cod) + Len(box0.dom), off0))
        ELSE Raised("InterchangerError", i)

\* "for k in range(i - j): result = result.interchange(i - k, i - k - 1)":
\* the box at position i walks down to position j; the first swap that
\* raises ends the walk with its error.  The walk's swaps take the default
\* flag.
RECURSIVE WalkDown(_, _, _, _)
WalkDown(result, i, j, k) ==
    IF k >= i - j THEN Ok(result)
    ELSE LET r == InterchangeAdjacent(result, i - k - 1, FALSE)
         IN  IF r.status # "ok" THEN r ELSE WalkDown(r.value, i, j, k + 1)

\* The walk up that stops one swap short of position j.
RECURSIVE WalkUpShort(_, _, _, _)
WalkUpShort(result, i, j, k) ==
    IF k >= j - i - 1 THEN Ok(result)
    ELSE LET r == InterchangeAdjacent(result, i + k, FALSE)
         IN  IF r.status # "ok" THEN r ELSE WalkUpShort(r.value, i, j, k + 1)

\* "for k in range(j - i): result = result.interchange(i + k, i + k + 1)"
RECURSIVE WalkUp(_, _, _, _)
WalkUp(result, i, j, k) ==
    IF k >= j - i THEN Ok(result)
    ELSE LET r == InterchangeAdjacent(result, i + k, FALSE)
         IN  IF r.status # "ok" THEN r ELSE WalkUp(r.value, i, j, k + 1)

Interchange(d, i, j, left) ==
    IF ~(0 <= i /\ i < Len(d.boxes)) \/ ~(0 <= j /\ j < Len(d.boxes))
    THEN Raised("IndexError", 0)
    ELSE IF i = j THEN Ok(d)
    ELSE IF j < i - 1 THEN WalkDown(d, i, j, 0)
    ELSE IF j > i + 1 THEN WalkUp(d, i, j, 0)
    ELSE InterchangeAdjacent(d, IF j < i THEN j ELSE i, left)

-----------------------------------------------------------------------------
(* normalize and normal_form.                                              *)

\* The directional test with the two directions exchanged.
NormalizeTestSwapped(d, i, left) ==
    \/ ~left /\ LeftOf(d, i)
    \/ left /\ RightOf(d, i)

\* The directional test normalize makes on the pair at positions i, i + 1.
NormalizeTest(d, i, left) ==
    \/ left /\ LeftOf(d, i)
    \/ ~left /\ RightOf(d, i)

\* "for i in range(len(diagram) - 1)": the diagram after the first
\* interchange that succeeds, the diagram itself when the scan finds none.
RECURSIVE NormalizeScan(_, _, _)
NormalizeScan(d, left, i) ==
    IF i >= Len(d.boxes) - 1 THEN d
    ELSE IF NormalizeTest(d, i, left)
         THEN LET r == Interchange(d, i, i + 1, left)
              IN  IF r.status = "ok" THEN r.value
                  ELSE NormalizeScan(d, left, i + 1)
         ELSE NormalizeScan(d, left, i + 1)

\* One pull of the generator: it ends when the scan leaves the diagram equal
\* to the one before, and yields the new diagram otherwise.
NormalizeNext(d, left) ==
    LET after == NormalizeScan(d, left, 0)
    IN  IF after = d THEN [more |-> FALSE, diagram |-> d]
        ELSE [more |-> TRUE, diagram |-> after]

\* One round of normal_form's loop that returns the first diagram yielded.
NormalFormPullOneMove(d, seen, left) ==
    LET r == NormalizeNext(d, left)
    IN  IF ~r.more THEN [pc |-> "return", diagram |-> d, cache |-> seen]
        ELSE [pc |-> "return", diagram |-> r.diagram, cache |-> seen \cup {r.diagram}]

\* One round of normal_form's loop that never looks into the cache.
NormalFormPullNoCache(d, seen, left) ==
    LET r == NormalizeNext(d, left)
    IN  IF ~r.more THEN [pc |-> "return", diagram |-> d, cache |-> seen]
        ELSE [pc |-> "loop", diagram |-> r.diagram, cache |-> seen \cup {r.diagram}]

\* One round of "for _diagram in self.normalize(left=left)": the generator
\* is exhausted (return), yields a diagram already in the cache (raise), or
\* yields a new one, which becomes diagram and joins the cache.
NormalFormPull(d, seen, left) ==
    LET r == NormalizeNext(d, left)
    IN  IF ~r.more THEN [pc |-> "return", diagram |-> d, cache |-> seen]
        ELSE IF r.diagram \in seen
             THEN [pc |-> "raise", diagram |-> d, cache |-> seen]
             ELSE [pc |-> "loop", diagram |-> r.diagram,
                   cache |-> seen \cup {r.diagram}]

\* The loop of normal_form from a round r of it on: the next round, the
\* return or the raise.
RECURSIVE NormalFormLoop(_, _, _)
NormalFormAfter(r, left) ==
    IF r.pc = "loop" THEN NormalFormLoop(r.diagram, r.cache, left)
    ELSE IF r.pc = "return" THEN Ok(r.diagram)
    ELSE Raised("NotImplementedError", Cardinality(r.cache))

NormalFormLoop(d, seen, left) == NormalFormAfter(NormalFormPull(d, seen, left), left)

\* d.normal_form(left)
NormalForm(d, left) == NormalFormLoop(d, {}, left)

-----------------------------------------------------------------------------
(* slice and flatten.                                                      *)

\* "for j in range(i + 1, len(diagram))": every box that interchange(j, i)
\* can bring to position i is brought there and counted.
RECURSIVE SlicePull(_, _, _, _)
SlicePull(d, i, j, n) ==
    IF j >= Len(d.boxes) THEN [diagram |-> d, n |-> n]
    ELSE LET r == Interchange(d, j, i, FALSE)
         IN  IF r.status = "ok" THEN SlicePull(r.value, i, j + 1, n + 1)
             ELSE SlicePull(d, i, j + 1, n)

\* "for j in range(i, i + n_boxes + 1)": the codomain of the layer.
RECURSIVE SliceCod(_, _, _, _)
SliceCod(d, cod, j, last) ==
    IF j > last THEN cod
    ELSE SliceCod(d, ScanStep(cod, d.boxes[j + 1], d.offsets[j + 1]), j + 1, last)

\* "slices.append(Diagram(dom, cod, boxes, offsets, _fast=True))" and
\* "i += n_boxes + 1", with p what the pull loop left and newcod the
\* codomain of the layer; then the while loop again.
RECURSIVE SliceLoop(_, _, _, _)
SliceAppend(p, i, slices, cod, newcod) ==
    SliceLoop(p.diagram, i + p.n + 1,
              Append(slices,
                     DiagramFast(cod, newcod,
                                 GetSlice(p.diagram.boxes, i, i + p.n + 1),
                                 GetSlice(p.diagram.offsets, i, i + p.n + 1)).value),
              newcod)

\* One layer: the codomain loop after the pull loop.
SliceLayer(p, i, slices, cod) ==
    SliceAppend(p, i, slices, cod, SliceCod(p.diagram, cod, i, i + p.n))

\* "while i < len(diagram)"
SliceLoop(d, i, slices, cod) ==
    IF i >= Len(d.boxes) THEN slices
    ELSE SliceLayer(SlicePull(d, i, i + 1, 0), i, slices, cod)

\* "return Diagram(self.dom, self.cod, slices, len(slices) * [0], _fast=True)"
SliceReturn(d, slices) ==
    DiagramFast(d.dom, d.cod, slices, [k \in 1..Len(slices) |-> 0])

\* d.slice(): a diagram whose boxes are diagrams, each at offset 0.
Slice(d) == SliceReturn(d, SliceLoop(d, 0, << >>, d.dom))

IsBox(b) == "name" \in DOMAIN b

\* MonoidalFunctor(Quiver(lambda x: x), Quiver(lambda f: f)): every object
\* and every box is its own image.
ObImage(o) == <<o>>
ArImage(b) == BoxDiagram(b)

\* F(t) for a type t: the images of its objects, concatenated.
RECURSIVE FunctorTy(_)
FunctorTy(t) == IF t = << >> THEN Ty0 ELSE ObImage(Head(t)) \o FunctorTy(Tail(t))

\* MonoidalFunctor.__call__ on a diagram: the loop over its boxes from pair
\* k on, with the image built so far; a box that is itself a diagram is
\* mapped by the same call.  A composition that does not type-check raises.
RECURSIVE FunctorLoop(_, _, _, _)
FunctorLoop(d, scan, result, k) ==
    IF k > Len(d.boxes) THEN Ok(result)
    ELSE LET box == d.boxes[k]
             off == d.offsets[k]
             idl == Id(FunctorTy(Upto(scan, off)))
             idr == Id(FunctorTy(From(scan, off + Len(box.dom))))
             img == IF IsBox(box) THEN Ok(ArImage(box))
                    ELSE FunctorLoop(box, box.dom, Id(FunctorTy(box.dom)), 1)
         IN  IF img.status # "ok" THEN img
             ELSE LET next == Then(result, T(T(idl, img.value), idr))
                  IN  IF next.status # "ok" THEN next
                      ELSE FunctorLoop(d, ScanStep(scan, box, off), next.value, k + 1)

\* d.flatten()
Flatten(d) == FunctorLoop(d, d.dom, Id(FunctorTy(d.dom)), 1)

-----------------------------------------------------------------------------
(* MonoidalFunctor: a functor F is a record [ob, ar], ob a function from    *)
(* objects to types and ar a function from boxes to diagrams.              *)

\* F(t) for a type t: "sum([self.ob[self.ob_cls(x)] for x in diagram],
\* self.ob_cls())"
RECURSIVE FunctorCallTy(_, _)
FunctorCallTy(F, t) ==
    IF t = << >> THEN Ty0 ELSE F.ob[Head(t)] \o FunctorCallTy(F, Tail(t))

\* F(box) for a box: its image in F.ar; a daggered box without an image of
\* its own gets the dagger of the image of the box it is the dagger of.
FunctorCallBox(F, box) ==
    IF box \in DOMAIN F.ar THEN Ok(F.ar[box])
    ELSE IF box.dag /\ BoxDagger(box) \in DOMAIN F.ar
         THEN Dagger(F.ar[BoxDagger(box)])
         ELSE Raised("KeyError", 0)

\* F(diagram) for a diagram: the loop over its boxes from pair k on, with
\* the scan and the result so far.  A composition that does not type-check
\* raises.
RECURSIVE FunctorCallLoop(_, _, _, _, _)
FunctorCallLoop(F, d, scan, result, k) ==
    IF k > Len(d.boxes) THEN Ok(result)
    ELSE LET box == d.boxes[k]
             off == d.offsets[k]
             idl == Id(FunctorCallTy(F, Upto(scan, off)))
             idr == Id(FunctorCallTy(F, From(scan, off + Len(box.dom))))
             img == FunctorCallBox(F, box)
         IN  IF img.status # "ok" THEN img
             ELSE LET next == Then(result, T(T(idl, img.value), idr))
                  IN  IF next.status # "ok" THEN next
                      ELSE FunctorCallLoop(F, d, ScanStep(scan, box, off),
                                           next.value, k + 1)

\* F(diagram)
FunctorCall(F, d) == FunctorCallLoop(F, d, d.dom, Id(FunctorCallTy(F, d.dom)), 1)

-----------------------------------------------------------------------------
(* The boxes and argument values the calls below are made with.            *)

X == <<"x">>
Y == <<"y">>

scalar == Box("s0", Ty0, Ty0)
scalar1 == Box("s1", Ty0, Ty0)
unit == Box("unit", Ty0, X)
counit == Box("counit", X, Ty0)
boxF == Box("f0", X, Y)
cup == Box("cup", X \o X, Ty0)
cap == Box("cap", Ty0, X \o X)

BoxPool == {scalar, scalar1, unit, counit, boxF}

SeqsUpTo(S, n) == UNION {[1..k -> S] : k \in 0..n}

Offsets == -1..MaxOff

\* longest diagram and longest type a session builds
MaxLen == MaxBoxes + 1

\* What then and tensor are called with: a box or an identity.
Operands == {BoxDiagram(b) : b \in BoxPool} \cup {Id(t) : t \in TypesUpTo(MaxDom)}

\* Every diagram the validated constructor returns for one box at most.
Validated ==
    {r.value : r \in
        {q \in {DiagramInit(dom, cod, boxes, offsets) :
                    dom \in TypesUpTo(MaxDom), cod \in TypesUpTo(MaxDom + 1),
                    boxes \in SeqsUpTo(BoxPool, 1), offsets \in SeqsUpTo(Offsets, 1)} :
            q.status = "ok"}}

\* _spiral: "for i in range(n_cups)" over the caps, from i on.
RECURSIVE SpiralCaps(_, _, _)
SpiralCaps(result, i, n) ==
    IF i >= n THEN result
    ELSE SpiralCaps(
            Th(result, T(T(Id(Pow(X, i)), BoxDiagram(cap)), Id(Pow(X, i + 1)))),
            i + 1, n)

\* _spiral: "for i in range(n_cups)" over the cups, from i on.
RECURSIVE SpiralCups(_, _, _)
SpiralCups(result, i, n) ==
    IF i >= n THEN result
    ELSE SpiralCups(
            Th(result, T(T(Id(Pow(X, n - i - 1)), BoxDiagram(cup)), Id(Pow(X, n - i - 1)))),
            i + 1, n)

\* _spiral(n_cups)
Spiral(n) ==
    LET caps == SpiralCaps(BoxDiagram(unit), 0, n)
        mid == Th(caps, T(T(Id(Pow(X, n)), BoxDiagram(counit)), Id(Pow(X, n))))
    IN  SpiralCups(mid, 0, n)

-----------------------------------------------------------------------------
(* A caller's session: it constructs a diagram and applies operations to   *)
(* it.  An exception that reaches the caller ends the session.             *)

NoCall == [op |-> "none"]

Init ==
    /\ cur = Id(Ty0)
    /\ call = NoCall
    /\ out = Ok(Id(Ty0))
    /\ diagram = Id(Ty0)
    /\ cache = {}
    /\ pc = "start"
    /\ calls = 0

\* The caller takes the value a call returned, or sees it raise.
Finish(r) ==
    /\ out' = r
    /\ calls' = calls + 1
    /\ IF r.status = "ok"
       THEN cur' = r.value /\ pc' = "ready"
       ELSE cur' = cur /\ pc' = "raised"
    /\ UNCHANGED <<diagram, cache>>

\* Diagram(dom, cod, boxes, offsets)
Construct ==
    /\ pc = "start"
    /\ \E dom \in TypesUpTo(MaxDom), cod \in TypesUpTo(MaxDom + 1),
          boxes \in SeqsUpTo(BoxPool, MaxBoxes), offsets \in SeqsUpTo(Offsets, MaxBoxes) :
          /\ call' = [op |-> "Diagram", dom |-> dom, cod |-> cod,
                      boxes |-> boxes, offsets |-> offsets]
          /\ Finish(DiagramInit(dom, cod, boxes, offsets))

\* Diagram(dom, cod, boxes, offsets) when it returns: the caller goes on
\* with the diagram.
ConstructOk ==
    /\ pc = "start"
    /\ \E dom \in TypesUpTo(MaxDom), cod \in TypesUpTo(MaxDom + 1),
          boxes \in SeqsUpTo(BoxPool, MaxBoxes), offsets \in SeqsUpTo(Offsets, MaxBoxes) :
          /\ DiagramInit(dom, cod, boxes, offsets).status = "ok"
          /\ call' = [op |-> "Diagram", dom |-> dom, cod |-> cod,
                      boxes |-> boxes, offsets |-> offsets]
          /\ Finish(DiagramInit(dom, cod, boxes, offsets))

\* cur >> other
ThenOp ==
    /\ pc = "ready"
    /\ calls <= MaxCalls
    /\ \E other \in Operands :
          /\ Len(cur.boxes) + Len(other.boxes) <= MaxLen
          /\ call' = [op |-> "then"]
          /\ Finish(Then(cur, other))

\* cur @ other and other @ cur
TensorOp ==
    /\ pc = "ready"
    /\ calls <= MaxCalls
    /\ \E other \in Operands, onLeft \in BOOLEAN :
          /\ Len(cur.boxes) + Len(other.boxes) <= MaxLen
          /\ Len(cur.dom) + Len(other.dom) <= MaxLen
          /\ Len(cur.cod) + Len(other.cod) <= MaxLen
          /\ call' = [op |-> "tensor"]
          /\ Finish(IF onLeft THEN Tensor(other, cur) ELSE Tensor(cur, other))

\* cur.dagger()
DaggerOp ==
    /\ pc = "ready"
    /\ calls <= MaxCalls
    /\ call' = [op |-> "dagger"]
    /\ Finish(Dagger(cur))

\* cur.interchange(i, j, left)
InterchangeOp ==
    /\ pc = "ready"
    /\ calls <= MaxCalls
    /\ \E i \in 0..(MaxLen - 1), j \in 0..(MaxLen - 1), left \in BOOLEAN :
          /\ call' = [op |-> "interchange", self |-> cur, i |-> i, j |-> j, left |-> left]
          /\ Finish(Interchange(cur, i, j, left))

\* cur.interchange(i, i + 1, left), the first call on a constructed diagram
InterchangeNextOp ==
    /\ pc = "ready"
    /\ calls = 1
    /\ \E i \in 0..(MaxLen - 1), left \in BOOLEAN :
          /\ call' = [op |-> "interchange", self |-> cur, i |-> i, j |-> i + 1,
                      left |-> left]
          /\ Finish(Interchange(cur, i, i + 1, left))

\* cur.slice()
SliceOp ==
    /\ pc = "ready"
    /\ calls <= MaxCalls
    /\ call' = [op |-> "slice", self |-> cur]
    /\ \E r \in {Slice(cur)} : out' = r /\ cur' = r.value
    /\ pc' = "sliced"
    /\ calls' = calls + 1
    /\ UNCHANGED <<diagram, cache>>

\* cur.flatten(), of a sliced diagram or of a plain one
FlattenOp ==
    /\ pc \in {"ready", "sliced"}
    /\ pc = "ready" => calls <= MaxCalls
    /\ call' = [op |-> "flatten", self |-> cur]
    /\ Finish(Flatten(cur))

\* cur.normal_form(left): "diagram, cache = self, set()"
NormalFormCall ==
    /\ pc = "ready"
    /\ calls <= MaxCalls
    /\ \E left \in BOOLEAN :
          call' = [op |-> "normal_form", self |-> cur, left |-> left,
                   again |-> (call.op = "normal_form" /\ call.left = left)]
    /\ diagram' = cur
    /\ cache' = {}
    /\ pc' = "normalizing"
    /\ calls' = calls + 1
    /\ UNCHANGED <<cur, out>>

\* One round of normal_form's loop over self.normalize(left=left).
NormalFormStep ==
    /\ pc = "normalizing"
    /\ \E r \in {NormalFormPull(diagram, cache, call.left)} :
           /\ diagram' = r.diagram
           /\ cache' = r.cache
           /\ IF r.pc = "loop"
              THEN pc' = "normalizing" /\ UNCHANGED <<cur, out>>
              ELSE IF r.pc = "return"
              THEN pc' = "ready" /\ cur' = r.diagram /\ out' = Ok(r.diagram)
              ELSE /\ pc' = "raised"
                   /\ cur' = cur
                   /\ out' = Raised("NotImplementedError", Cardinality(cache))
    /\ UNCHANGED <<call, calls>>

\* spiral = _spiral(n)
MakeSpiral ==
    /\ pc = "start"
    /\ \E n \in 0..MaxSpiral :
          /\ call' = [op |-> "_spiral", n |-> n]
          /\ Finish(Ok(Spiral(n)))

Next ==
    \/ Construct \/ ThenOp \/ TensorOp \/ DaggerOp \/ InterchangeOp
    \/ SliceOp \/ FlattenOp \/ NormalFormCall \/ NormalFormStep

Spec == Init /\ [][Next]_vars

\* A session that applies the operations that build their result through
\* the fast path.
NextAlgebra == Construct \/ ThenOp \/ TensorOp \/ DaggerOp \/ InterchangeOp

SpecAlgebra == Init /\ [][NextAlgebra]_vars

\* A session that only constructs.
NextCtor == Construct

SpecCtor == Init /\ [][NextCtor]_vars

\* A session that constructs a diagram and interchanges two of its
\* neighbouring boxes.
NextSwap == Construct \/ InterchangeNextOp

SpecSwap == Init /\ [][NextSwap]_vars

\* The laws of the module's doctests, each evaluated on arguments within the
\* bounds.
LawOperands == Validated \cup Operands

\* Box(name, x, y) for every x and y within the bound
AtomicBoxes(name) ==
    {Box(name, a, b) : a \in TypesUpTo(MaxDom), b \in TypesUpTo(MaxDom)}

Done(c, r) ==
    /\ call' = c
    /\ out' = r
    /\ pc' = "done"
    /\ calls' = calls + 1
    /\ UNCHANGED <<cur, diagram, cache>>

\* (f >> g) >> h, f >> (g >> h), Id(f.dom) >> f, f >> Id(f.cod)
ThenLaws ==
    /\ pc = "start"
    /\ \E f \in LawOperands, g \in LawOperands, h \in LawOperands :
        /\ f.cod = g.dom
        /\ g.cod = h.dom
        /\ Done([op |-> "then_laws", f |-> f, g |-> g, h |-> h],
                [status |-> "ok",
                 left |-> Th(Th(f, g), h), right |-> Th(f, Th(g, h)),
                 unitl |-> Th(Id(f.dom), f), unitr |-> Th(f, Id(f.cod))])

\* (f @ g) @ h, f @ (g @ h), Id(Ty()) @ f, f @ Id(Ty()), f @ g
TensorLaws ==
    /\ pc = "start"
    /\ \E f \in LawOperands, g \in LawOperands, h \in LawOperands :
        Done([op |-> "tensor_laws", f |-> f, g |-> g, h |-> h],
             [status |-> "ok",
              left |-> T(T(f, g), h), right |-> T(f, T(g, h)),
              unitl |-> T(Id(Ty0), f), unitr |-> T(f, Id(Ty0)),
              fg |-> T(f, g)])

\* f0 @ f1 against the interchange of its two-step forms:
\* f0 @ Id(z) >> Id(y) @ f1 and Id(x) @ f1 >> f0 @ Id(w).
InterchangeLaw ==
    /\ pc = "start"
    /\ \E f0 \in AtomicBoxes("f0"), f1 \in AtomicBoxes("f1") :
        LET b0 == BoxDiagram(f0)
            b1 == BoxDiagram(f1)
            f0first == Th(T(b0, Id(f1.dom)), T(Id(f0.cod), b1))
            f1first == Th(T(Id(f0.dom), b1), T(b0, Id(f1.cod)))
        IN  Done([op |-> "interchange_law", f0 |-> f0, f1 |-> f1],
                 [status |-> "ok", tensor |-> T(b0, b1),
                  f0first |-> f0first, f1first |-> f1first,
                  of_f0first |-> Interchange(f0first, 0, 1, FALSE),
                  of_f1first |-> Interchange(f1first, 0, 1, FALSE),
                  of_tensor |-> Interchange(T(b0, b1), 0, 1, FALSE)])

NextLaws == ThenLaws \/ TensorLaws \/ InterchangeLaw

SpecLaws == Init /\ [][NextLaws]_vars

\* What the laws of dagger are evaluated on: validated diagrams, boxes,
\* identities, and the tensors and composites of two of these.
DaggerOperands ==
    LawOperands
        \cup {T(a, b) : a, b \in Operands}
        \cup {r.value : r \in {q \in {Then(a, b) : a, b \in Operands} : q.status = "ok"}}

\* f.dagger().dagger(), (f >> g).dagger(), g.dagger() >> f.dagger()
DaggerLaws ==
    /\ pc = "start"
    /\ \E f \in DaggerOperands, g \in DaggerOperands :
        /\ f.cod = g.dom
        /\ Done([op |-> "dagger_laws", f |-> f, g |-> g],
                [status |-> "ok",
                 once |-> Dagger(f),
                 twice |-> Dagger(Dagger(f).value),
                 of_then |-> Dagger(Th(f, g)),
                 then_of |-> Then(Dagger(g).value, Dagger(f).value)])

NextDagger == DaggerLaws

SpecDagger == Init /\ [][NextDagger]_vars

\* The functors the laws are evaluated with: every assignment of a type to
\* each object, and for each box an image from the image of its domain to
\* the image of its codomain, either a box or a box followed by a scalar to
\* its right.
FunctorImage(ob, b, two) ==
    LET F == [ob |-> ob, ar |-> << >>]
        image == BoxDiagram(Box(b.name, FunctorCallTy(F, b.dom), FunctorCallTy(F, b.cod)))
    IN  IF two THEN Th(image, T(Id(image.cod), BoxDiagram(scalar))) ELSE image

Functors ==
    {[ob |-> ob, ar |-> [b \in BoxPool |-> FunctorImage(ob, b, two)]] :
        ob \in [Obj -> TypesUpTo(MaxDom)], two \in BOOLEAN}

\* The value of self >> other and of self @ other when self and other are
\* themselves the outcomes of calls: an exception of either is the outcome.
ThenOf(a, b) ==
    IF a.status # "ok" THEN a ELSE IF b.status # "ok" THEN b
    ELSE Then(a.value, b.value)
TensorOf(a, b) ==
    IF a.status # "ok" THEN a ELSE IF b.status # "ok" THEN b
    ELSE Tensor(a.value, b.value)

\* F(f >> g), F(f) >> F(g), F(f @ g), F(f) @ F(g), F(Ty()), F(Id(f.dom))
FunctorLaws ==
    /\ pc = "start"
    /\ \E F \in Functors, f \in LawOperands, g \in LawOperands :
        Done([op |-> "functor_laws", F |-> F, f |-> f, g |-> g],
             [status |-> "ok",
              of_then |-> IF f.cod = g.dom THEN FunctorCall(F, Th(f, g))
                          ELSE Then(f, g),
              then_of |-> IF f.cod = g.dom
                          THEN ThenOf(FunctorCall(F, f), FunctorCall(F, g))
                          ELSE Then(f, g),
              of_tensor |-> FunctorCall(F, T(f, g)),
              tensor_of |-> TensorOf(FunctorCall(F, f), FunctorCall(F, g)),
              of_unit |-> FunctorCallTy(F, Ty0),
              of_id |-> FunctorCall(F, Id(f.dom)),
              id_of |-> Id(FunctorCallTy(F, f.dom))])

NextFunctor == FunctorLaws

SpecFunctor == Init /\ [][NextFunctor]_vars

\* cur.normal_form(left) against cur.interchange(i, i + 1, flag)
\* .normal_form(left), for an interchange that succeeds.
NormalFormOfSwap ==
    /\ pc = "ready"
    /\ \E i \in 0..(MaxLen - 2), flag \in BOOLEAN, left \in BOOLEAN :
        \E r \in {Interchange(cur, i, i + 1, flag)} :
            /\ r.status = "ok"
            /\ call' = [op |-> "normal_form_of_swap", self |-> cur, i |-> i,
                        flag |-> flag, left |-> left, swapped |-> r.value]
            /\ out' = [status |-> "ok",
                       of_self |-> NormalForm(cur, left),
                       of_swapped |-> NormalForm(r.value, left)]
    /\ pc' = "done"
    /\ calls' = calls + 1
    /\ UNCHANGED <<cur, diagram, cache>>

\* A session that builds a diagram and compares the normal forms of the
\* diagram and of an interchange of it.
NextCanon == ConstructOk \/ ThenOp \/ TensorOp \/ NormalFormOfSwap

SpecCanon == Init /\ [][NextCanon]_vars

\* What interchange(i, j) is evaluated on: the diagrams of the laws of
\* dagger with one more box or identity tensored or composed on a side.
WalkOperands ==
    {T(p, a) : p \in DaggerOperands, a \in Operands}
        \cup {T(a, p) : p \in DaggerOperands, a \in Operands}
        \cup {r.value : r \in {q \in {Then(p, a) : p \in DaggerOperands, a \in Operands} :
                                  q.status = "ok"}}
        \cup {r.value : r \in {q \in {Then(a, p) : p \in DaggerOperands, a \in Operands} :
                                  q.status = "ok"}}

\* d.interchange(i, j, left) for any two positions
InterchangeWalk ==
    /\ pc = "start"
    /\ \E d \in WalkOperands, i \in 0..(MaxLen - 1), j \in 0..(MaxLen - 1),
          left \in BOOLEAN :
        Done([op |-> "interchange_walk", self |-> d, i |-> i, j |-> j, left |-> left],
             Interchange(d, i, j, left))

NextWalk == InterchangeWalk

SpecWalk == Init /\ [][NextWalk]_vars

\* The loop of normal_form runs on: nothing in the single-threaded caller
\* preempts it.  This is WF_vars(NormalFormStep) with its ENABLED written
\* out: a round of the loop is possible exactly when pc = "normalizing",
\* and every round changes pc or adds to the cache.
LoopRunsOn == []<>(pc # "normalizing") \/ []<><<NormalFormStep>>_vars

\* A session that constructs a diagram and normalises it.
NextNF == ConstructOk \/ NormalFormCall \/ NormalFormStep

SpecNF == Init /\ [][NextNF]_vars /\ LoopRunsOn

\* The session of the doctest of _spiral.
NextSpiral == MakeSpiral \/ NormalFormCall \/ NormalFormStep

SpecSpiral == Init /\ [][NextSpiral]_vars /\ LoopRunsOn

-----------------------------------------------------------------------------
(* Notions the properties are stated with.                                 *)

\* The scan of the simulation after its first k steps.
RECURSIVE ScanAfter(_, _, _, _)
ScanAfter(dom, boxes, offsets, k) ==
    IF k = 0 THEN dom
    ELSE LET scan == ScanAfter(dom, boxes, offsets, k - 1)
         IN  Upto(scan, offsets[k]) \o boxes[k].cod
                 \o From(scan, offsets[k] + Len(boxes[k].dom))

\* Step k of the simulation finds box k's domain at its offset.
StepFits(dom, boxes, offsets, k) ==
    GetSlice(ScanAfter(dom, boxes, offsets, k - 1),
             offsets[k], offsets[k] + Len(boxes[k].dom)) = boxes[k].dom

\* The first step at which the simulation fails: Len(boxes) + 1 stands for
\* the comparison of the final scan with cod, 0 for no failure.
FirstFailure(dom, cod, boxes, offsets) ==
    LET bad == {k \in 1..Len(boxes) : ~StepFits(dom, boxes, offsets, k)}
    IN  IF bad # {} THEN CHOOSE k \in bad : \A m \in bad : k <= m
        ELSE IF ScanAfter(dom, boxes, offsets, Len(boxes)) # cod
             THEN Len(boxes) + 1
             ELSE 0

\* d passes the validated constructor's scan check.
WellFormed(d) == DiagramInit(d.dom, d.cod, d.boxes, d.offsets).status = "ok"

\* Every box of d sits inside the scan it acts on.
OffsetsInRange(d) ==
    \A k \in 1..Len(d.boxes) :
        /\ 0 <= d.offsets[k]
        /\ d.offsets[k] + Len(d.boxes[k].dom)
               <= Len(ScanAfter(d.dom, d.boxes, d.offsets, k - 1))

\* For each wire of the scan after k boxes, the box that output it (0 for a
\* wire of dom).
RECURSIVE Producers(_, _)
Producers(d, k) ==
    IF k = 0 THEN [w \in 1..Len(d.dom) |-> 0]
    ELSE LET p == Producers(d, k - 1)
         IN  Upto(p, d.offsets[k]) \o [w \in 1..Len(d.boxes[k].cod) |-> k]
                 \o From(p, d.offsets[k] + Len(d.boxes[k].dom))

\* The box at position i + 1 consumes a wire output by the box at position i.
Consumes(d, i) ==
    LET taken == GetSlice(Producers(d, i + 1), d.offsets[i + 2],
                          d.offsets[i + 2] + Len(d.boxes[i + 2].dom))
    IN  \E w \in 1..Len(taken) : taken[w] = i + 1

\* The pair at positions i, i + 1 passes both disjointness tests.
Ambiguous(d, i) == RightOf(d, i) /\ LeftOf(d, i)

\* The call was interchange on two neighbouring positions of its diagram.
AdjacentCall ==
    /\ call.op = "interchange"
    /\ call.i \in 0..(Len(call.self.boxes) - 1)
    /\ call.j \in 0..(Len(call.self.boxes) - 1)
    /\ call.j - call.i \in {-1, 1}

\* d has two boxes or more, each of them a scalar.
OnlyScalars(d) ==
    /\ Len(d.boxes) >= 2
    /\ \A k \in 1..Len(d.boxes) : d.boxes[k].dom = Ty0 /\ d.boxes[k].cod = Ty0

\* The size of the spiral a diagram with that many boxes is.
SpiralSize(d) == (Len(d.boxes) - 2) \div 2

\* The call was normal_form with the default flag on a spiral.
SpiralCall ==
    /\ call.op = "normal_form"
    /\ ~call.left
    /\ Len(call.self.boxes) >= 2
    /\ call.self = Spiral(SpiralSize(call.self))

-----------------------------------------------------------------------------
(* The properties.                                                         *)

\* C1: the validated constructor returns the diagram of its arguments
\* exactly when the scan simulation succeeds at every step and ends on cod;
\* otherwise it raises an axiom error at the first step that fails and the
\* caller gets no diagram.
C1_ValidatedConstruction ==
    (call.op = "Diagram" /\ Len(call.boxes) = Len(call.offsets)) =>
        LET first == FirstFailure(call.dom, call.cod, call.boxes, call.offsets)
        IN  IF first = 0
            THEN /\ out = Ok([dom |-> call.dom, cod |-> call.cod,
                             boxes |-> call.boxes, offsets |-> call.offsets])
                 /\ cur = out.value
                 /\ pc = "ready"
            ELSE /\ out = Raised("AxiomError", first)
                 /\ cur = Id(Ty0)
                 /\ pc = "raised"

\* A construction of two boxes was rejected at its second step.
C1_RejectedAtSecondStep ==
    /\ call.op = "Diagram"
    /\ Len(call.boxes) = 2
    /\ out = Raised("AxiomError", 2)

\* C2: every diagram returned by then, tensor, dagger or interchange,
\* applied from validated diagrams, boxes and identities on, passes the
\* validated constructor's scan check.
C2_WellFormedInvariant ==
    (pc = "ready" /\ call.op \in {"then", "tensor", "dagger", "interchange"})
        => WellFormed(cur)

\* C3: then and tensor are associative, identities are units of then, the
\* identity on the empty type is the unit of tensor, and f @ g has the
\* domains and codomains concatenated, the boxes of f then those of g, and
\* g's offsets shifted by len(f.cod).
C3_MonoidalLaws ==
    /\ call.op = "then_laws" =>
          /\ out.left = out.right
          /\ out.unitl = call.f
          /\ out.unitr = call.f
    /\ call.op = "tensor_laws" =>
          /\ out.left = out.right
          /\ out.unitl = call.f
          /\ out.unitr = call.f
          /\ out.fg.dom = call.f.dom \o call.g.dom
          /\ out.fg.cod = call.f.cod \o call.g.cod
          /\ out.fg.boxes = call.f.boxes \o call.g.boxes
          /\ out.fg.offsets = call.f.offsets \o
                [k \in 1..Len(call.g.offsets) |-> call.g.offsets[k] + Len(call.f.cod)]

\* The tensor laws were evaluated on three one-box diagrams, the first with
\* a codomain that shifts the offsets after it.
C3_TensorOfBoxes ==
    /\ call.op = "tensor_laws"
    /\ Len(call.f.boxes) = 1 /\ Len(call.g.boxes) = 1 /\ Len(call.h.boxes) = 1
    /\ Len(call.f.cod) > 0
    /\ out.fg.offsets[2] # call.g.offsets[1]

\* C4: interchange on neighbouring positions raises an interchanger error
\* exactly when neither disjointness test holds, and so whenever the second
\* box consumes a wire output by the first; when it raises the caller keeps
\* d and gets no diagram; otherwise the result has the two boxes swapped,
\* the other boxes and offsets where they were.
C4_InterchangeRaises ==
    AdjacentCall =>
        LET d == call.self
            i == IF call.j < call.i THEN call.j ELSE call.i
        IN  /\ out.status = "InterchangerError" <=> ~RightOf(d, i) /\ ~LeftOf(d, i)
            /\ Consumes(d, i) => out.status = "InterchangerError"
            /\ out.status # "ok" => out.value = None /\ cur = d /\ pc = "raised"
            /\ out.status = "ok" =>
                  /\ cur = out.value
                  /\ out.value.dom = d.dom /\ out.value.cod = d.cod
                  /\ out.value.boxes = Swapped(d.boxes, i, d.boxes[i + 2], d.boxes[i + 1])
                  /\ \A k \in 1..Len(d.boxes) :
                        k \notin {i + 1, i + 2} => out.value.offsets[k] = d.offsets[k]
                  /\ \/ /\ out.value.offsets[i + 1] = d.offsets[i + 2]
                        /\ out.value.offsets[i + 2] = d.offsets[i + 1]
                              - Len(d.boxes[i + 2].dom) + Len(d.boxes[i + 2].cod)
                     \/ /\ out.value.offsets[i + 2] = d.offsets[i + 1]
                        /\ out.value.offsets[i + 1] = d.offsets[i + 2]
                              - Len(d.boxes[i + 1].cod) + Len(d.boxes[i + 1].dom)

\* C5 as stated: after a successful interchange(d, i, i + 1) with the
\* default flag on a diagram d with its offsets in range, the same call on
\* the result succeeds and returns d.
C5_SelfInverse ==
    (call.op = "interchange" /\ ~call.left /\ out.status = "ok"
        /\ OffsetsInRange(call.self))
        => Interchange(out.value, call.i, call.j, FALSE) = Ok(call.self)

\* C5: after a successful interchange(d, i, i + 1, left), the same call on
\* the result d' succeeds; it returns d unless the pair in d' passes both
\* disjointness tests, and then one of the two flags returns d.
C5_InverseUpToFlag ==
    (call.op = "interchange" /\ out.status = "ok") =>
        /\ Interchange(out.value, call.i, call.j, call.left).status = "ok"
        /\ ~Ambiguous(out.value, call.i) =>
              Interchange(out.value, call.i, call.j, call.left) = Ok(call.self)
        /\ \E left \in BOOLEAN :
              Interchange(out.value, call.i, call.j, left) = Ok(call.self)

\* An interchange moved an offset, and the pair it left passes one test only.
C5_SwappedUnambiguous ==
    /\ call.op = "interchange"
    /\ out.status = "ok"
    /\ ~Ambiguous(out.value, call.i)
    /\ out.value.offsets # Swapped(call.self.offsets, call.i,
                                   call.self.offsets[call.i + 2],
                                   call.self.offsets[call.i + 1])

C7_NormalFormTerminates ==
    /\ (pc = "normalizing") ~> (pc \in {"ready", "raised"})
    /\ [](call.op = "normal_form" /\ pc = "raised" =>
            /\ NormalizeNext(diagram, call.left).more
            /\ NormalizeNext(diagram, call.left).diagram \in cache)
    /\ [](call.op = "normal_form" /\ pc = "normalizing" =>
            \/ cache = {} /\ diagram = call.self
            \/ diagram \in cache)

\* normal_form raised after it had recorded two diagrams.
C7_RaisedOnRevisit ==
    /\ call.op = "normal_form"
    /\ pc = "raised"
    /\ Cardinality(cache) >= 2

\* C8: normal_form called with the same flag on the diagram it has just
\* returned returns that diagram.
C8_NormalFormIdempotent ==
    (call.op = "normal_form" /\ call.again /\ pc # "normalizing") =>
        /\ pc = "ready"
        /\ out = Ok(call.self)
        /\ cur = call.self

\* The second call returned on a diagram that had moved from its input.
C8_SecondCallReturned ==
    /\ call.op = "normal_form"
    /\ call.again
    /\ pc = "ready"
    /\ \E i \in 0..(Len(cur.boxes) - 2) : NormalizeTest(cur, i, ~call.left)

\* C9: when normal_form(d) returns, on a well-formed d with its offsets in
\* range, normal_form(flatten(slice(d))) returns the same diagram.
C9_SliceFlattenNormalForm ==
    (call.op = "normal_form" /\ ~call.left /\ pc = "ready"
        /\ WellFormed(call.self) /\ OffsetsInRange(call.self)) =>
        LET flat == Flatten(Slice(call.self).value)
        IN  /\ flat.status = "ok"
            /\ NormalForm(flat.value, FALSE) = Ok(cur)

\* C10: the spiral of size n has 2n + 2 boxes, the unit first and the counit
\* at position n + 1; normal_form with the default flag on it never raises,
\* returns, and returns a diagram with the counit last and the unit at
\* position n.
C10_SpiralNormalForm ==
    /\ [](call.op = "_spiral" =>
            /\ Len(cur.boxes) = 2 * call.n + 2
            /\ cur.boxes[1] = unit
            /\ cur.boxes[call.n + 2] = counit)
    /\ [](SpiralCall => pc # "raised")
    /\ [](SpiralCall /\ pc = "ready" =>
            /\ cur.boxes[Len(cur.boxes)] = counit
            /\ cur.boxes[SpiralSize(call.self) + 1] = unit)
    /\ (SpiralCall /\ pc = "normalizing") ~> (pc = "ready")

\* normal_form returned on the spiral of size 5 after more than 200 moves.
C10_SpiralOfFiveReturned ==
    /\ SpiralCall
    /\ SpiralSize(call.self) = 5
    /\ pc = "ready"
    /\ Cardinality(cache) > 200

\* C11: on a diagram of two or more boxes, each with empty domain and empty
\* codomain, and with its offsets in range, every pull of normalize yields
\* another diagram, and normal_form raises the not-connected error instead
\* of returning.
C11_ScalarsNeverNormalise ==
    (call.op = "normal_form" /\ OnlyScalars(call.self)
        /\ WellFormed(call.self) /\ OffsetsInRange(call.self)) =>
        /\ pc = "normalizing" => NormalizeNext(diagram, call.left).more
        /\ pc # "normalizing" => pc = "raised" /\ out.status = "NotImplementedError"

\* C12: dagger swaps dom and cod, reverses the boxes and the offsets and
\* daggers every box; f.dagger().dagger() is f, and for composable f, g
\* (f >> g).dagger() is g.dagger() >> f.dagger().
C12_DaggerInvolution ==
    call.op = "dagger_laws" =>
        /\ out.once.status = "ok"
        /\ out.once.value.dom = call.f.cod
        /\ out.once.value.cod = call.f.dom
        /\ Len(out.once.value.boxes) = Len(call.f.boxes)
        /\ \A k \in 1..Len(call.f.boxes) :
              /\ out.once.value.boxes[k]
                    = BoxDagger(call.f.boxes[Len(call.f.boxes) + 1 - k])
              /\ out.once.value.offsets[k]
                    = call.f.offsets[Len(call.f.boxes) + 1 - k]
        /\ out.twice = Ok(call.f)
        /\ out.then_of.status = "ok"
        /\ out.of_then = out.then_of

\* The laws were evaluated on an f with two different boxes at different
\* offsets and a g with a box.
C12_DaggerOfTwoBoxes ==
    /\ call.op = "dagger_laws"
    /\ Len(call.f.boxes) = 2
    /\ call.f.boxes[1] # call.f.boxes[2]
    /\ call.f.offsets[1] # call.f.offsets[2]
    /\ Len(call.g.boxes) >= 1
    /\ out.of_then.status = "ok"

\* C13: for every functor F and all diagrams f, g, F(f >> g) is
\* F(f) >> F(g) when f.cod == g.dom, F(f @ g) is F(f) @ F(g), F of the empty
\* type is the empty type and F of an identity is the identity on the image
\* of its type.
C13_FunctorPreserves ==
    call.op = "functor_laws" =>
        /\ out.of_then = out.then_of
        /\ out.of_tensor = out.tensor_of
        /\ out.of_unit = Ty0
        /\ out.of_id = Ok(out.id_of)

\* C14: when normal_form(d, left) returns n, on a well-formed d with its
\* offsets in range, no adjacent pair of n passes the directional test of
\* normalize for that flag.
C14_ReturnedIsNormal ==
    (call.op = "normal_form" /\ pc = "ready"
        /\ WellFormed(call.self) /\ OffsetsInRange(call.self)) =>
        \A i \in 0..(Len(cur.boxes) - 2) : ~NormalizeTest(cur, i, call.left)

\* C15: for a well-formed d with its offsets in range and a successful
\* d' = interchange(d, i, i + 1) with either flag, when normal_form(d) and
\* normal_form(d') both return under the same flag left, they return equal
\* diagrams.
C15_NormalFormCanonical ==
    (call.op = "normal_form_of_swap"
        /\ WellFormed(call.self) /\ OffsetsInRange(call.self)
        /\ out.of_self.status = "ok" /\ out.of_swapped.status = "ok")
        => out.of_self = out.of_swapped

C17_AcceptedOffsetsInRange ==
    (call.op = "Diagram" /\ out.status = "ok") => OffsetsInRange(out.value)

=============================================================================
